---- MODULE Spec2Model ----
(***************************************************************************)
(* mee6 level calculation (src/mee6/src/lib.rs).                           *)
(*                                                                         *)
(* LevelInfo::new(xp) inverts the cubic threshold function by a linear     *)
(* forward search carried out in IEEE-754 binary64 arithmetic and then     *)
(* derives the progress percentage.  The arithmetic is modelled bit-exact: *)
(* a finite f64 is a sign and an exact dyadic rational m * 2^e whose       *)
(* significand m is an arbitrary-precision natural (little-endian limbs),  *)
(* and every operation rounds its exact result to 53 significant bits,     *)
(* ties to even.  Exponent underflow (subnormals) is not modelled: no      *)
(* value of magnitude below 2^-1022 arises from u64 inputs.                *)
(***************************************************************************)
EXTENDS Integers, Sequences, FiniteSets, TLC

\* ------------------------------------------------------------------------
\* Bounds of the model
\* ------------------------------------------------------------------------
\* Single-call specifications: xp ranges over 0..MaxXp and AnchorXp.
MaxXp == 1500
\* Two-call specification: both xp values range over
\* { k * PairStride : k \in 0..PairCount }.
PairStride == 175
PairCount == 33

\* ------------------------------------------------------------------------
\* Arbitrary-precision naturals: little-endian sequences of limbs in
\* 0..Base-1 without most-significant zero limbs; <<>> is zero.
\* ------------------------------------------------------------------------
LimbBits == 15
Base == 32768

\* F applied to the values of its arguments, each evaluated exactly once.
\* TLC re-evaluates an operator argument or a LET definition at every use
\* when it computes ENABLED, so every operator below that uses an argument
\* more than once first binds it to its value.
Let1(F(_), x) == CHOOSE r \in {F(v) : v \in {x}} : TRUE
Let2(F(_, _), x, y) == CHOOSE r \in {F(v, w) : v \in {x}, w \in {y}} : TRUE
Let3(F(_, _, _), x, y, z) ==
  CHOOSE r \in {F(u, v, w) : u \in {x}, v \in {y}, w \in {z}} : TRUE

RECURSIVE Pow2(_)
Pow2(n) == IF n = 0 THEN 1 ELSE 2 * Pow2(n - 1)

RECURSIVE BTrim(_)
BTrim(x) ==
  Let1(LAMBDA a :
         IF a = <<>> THEN a
         ELSE IF a[Len(a)] = 0 THEN BTrim(SubSeq(a, 1, Len(a) - 1)) ELSE a,
       x)

RECURSIVE BFromNat(_)
BFromNat(x) ==
  Let1(LAMBDA n :
         IF n = 0 THEN <<>> ELSE <<n % Base>> \o BFromNat(n \div Base),
       x)

RECURSIVE BToNat(_)
BToNat(x) ==
  Let1(LAMBDA a : IF a = <<>> THEN 0 ELSE Head(a) + Base * BToNat(Tail(a)),
       x)

BHead(x) == Let1(LAMBDA a : IF a = <<>> THEN 0 ELSE Head(a), x)
BTail(x) == Let1(LAMBDA a : IF a = <<>> THEN <<>> ELSE Tail(a), x)

\* a + b + c for a carry c
RECURSIVE BAddC(_, _, _)
BAddC(x, y, z) ==
  Let3(LAMBDA a, b, c :
         IF a = <<>> /\ b = <<>> THEN (IF c = 0 THEN <<>> ELSE <<c>>)
         ELSE Let1(LAMBDA t : <<t % Base>>
                                \o BAddC(BTail(a), BTail(b), t \div Base),
                   BHead(a) + BHead(b) + c),
       x, y, z)

BAdd(a, b) == BAddC(a, b, 0)

\* a - b - c for a >= b + c, untrimmed
RECURSIVE BSubC(_, _, _)
BSubC(x, y, z) ==
  Let3(LAMBDA a, b, c :
         IF a = <<>> THEN <<>>
         ELSE Let1(LAMBDA t :
                     IF t < 0
                     THEN <<t + Base>> \o BSubC(Tail(a), BTail(b), 1)
                     ELSE <<t>> \o BSubC(Tail(a), BTail(b), 0),
                   Head(a) - BHead(b) - c),
       x, y, z)

BSub(a, b) == BTrim(BSubC(a, b, 0))

\* -1, 0, 1 as a < b, a = b, a > b for a and b of the same length, comparing
\* the limbs i, i-1, ..., 1
RECURSIVE BCmpFrom(_, _, _)
BCmpFrom(a, b, i) ==
  IF i = 0 THEN 0
  ELSE IF a[i] < b[i] THEN -1
  ELSE IF a[i] > b[i] THEN 1
  ELSE BCmpFrom(a, b, i - 1)

\* -1, 0, 1 as a < b, a = b, a > b
BCmp(x, y) ==
  Let2(LAMBDA a, b :
         IF Len(a) < Len(b) THEN -1
         ELSE IF Len(a) > Len(b) THEN 1
         ELSE BCmpFrom(a, b, Len(a)),
       x, y)

\* a * k + c for a limb k
RECURSIVE BMulSmallC(_, _, _)
BMulSmallC(x, y, z) ==
  Let3(LAMBDA a, k, c :
         IF a = <<>> THEN (IF c = 0 THEN <<>> ELSE <<c>>)
         ELSE Let1(LAMBDA t : <<t % Base>>
                                \o BMulSmallC(Tail(a), k, t \div Base),
                   Head(a) * k + c),
       x, y, z)

BMulSmall(a, k) == BTrim(BMulSmallC(a, k, 0))

RECURSIVE BMul(_, _)
BMul(x, y) ==
  Let2(LAMBDA a, b :
         IF a = <<>> \/ b = <<>> THEN <<>>
         ELSE Let1(LAMBDA rest :
                     BAdd(BMulSmall(a, Head(b)),
                          IF rest = <<>> THEN <<>> ELSE <<0>> \o rest),
                   BMul(a, Tail(b))),
       x, y)

RECURSIVE BitLenSmall(_)
BitLenSmall(x) ==
  Let1(LAMBDA n : IF n = 0 THEN 0 ELSE 1 + BitLenSmall(n \div 2), x)

BBitLen(x) ==
  Let1(LAMBDA a :
         IF a = <<>> THEN 0
         ELSE LimbBits * (Len(a) - 1) + BitLenSmall(a[Len(a)]),
       x)

BOdd(x) == Let1(LAMBDA a : a # <<>> /\ a[1] % 2 = 1, x)

RECURSIVE BZeros(_)
BZeros(x) == Let1(LAMBDA n : IF n = 0 THEN <<>> ELSE <<0>> \o BZeros(n - 1), x)

\* a * 2^n
BShl(x, y) ==
  Let2(LAMBDA a, n :
         IF a = <<>> THEN <<>>
         ELSE BZeros(n \div LimbBits) \o BMulSmall(a, Pow2(n % LimbBits)),
       x, y)

\* floor(a / k) for a limb k > 0, from the limb i down, r the remainder of
\* the limbs above i
RECURSIVE BDivSmallFrom(_, _, _, _)
BDivSmallFrom(a, k, i, r) ==
  IF i = 0 THEN <<>>
  ELSE Let1(LAMBDA t : BDivSmallFrom(a, k, i - 1, t % k) \o <<t \div k>>,
            r * Base + a[i])

BDivSmall(x, y) ==
  Let2(LAMBDA a, k : BTrim(BDivSmallFrom(a, k, Len(a), 0)), x, y)

\* floor(a / 2^n)
BShr(x, y) ==
  Let2(LAMBDA a, n :
         IF n \div LimbBits >= Len(a) THEN <<>>
         ELSE BDivSmall(SubSeq(a, n \div LimbBits + 1, Len(a)),
                        Pow2(n % LimbBits)),
       x, y)

\* number of trailing zero bits of n # 0
RECURSIVE TzSmall(_)
TzSmall(x) ==
  Let1(LAMBDA n : IF n % 2 = 1 THEN 0 ELSE 1 + TzSmall(n \div 2), x)

RECURSIVE BTz(_)
BTz(x) ==
  Let1(LAMBDA a :
         IF Head(a) = 0 THEN LimbBits + BTz(Tail(a)) ELSE TzSmall(Head(a)),
       x)

\* Quotient digit floor(r / d) for r < d * Base and d with its top limb at
\* least Base / 2: the estimate from the leading limbs is at most two too
\* large and is corrected downwards.
RECURSIVE BDigitFix(_, _, _)
BDigitFix(r, d, x) ==
  Let1(LAMBDA qhat :
         IF BCmp(BMulSmall(d, qhat), r) > 0 THEN BDigitFix(r, d, qhat - 1)
         ELSE qhat,
       x)

BDigit(x, y) ==
  Let2(LAMBDA r, d :
         IF Len(r) < Len(d) THEN 0
         ELSE Let1(LAMBDA est :
                     BDigitFix(r, d, IF est > Base - 1 THEN Base - 1 ELSE est),
                   ((IF Len(r) > Len(d) THEN r[Len(d) + 1] * Base ELSE 0)
                      + r[Len(d)]) \div d[Len(d)]),
       x, y)

\* <<quotient, remainder>> of the limbs i..Len(n) of n by a normalised d,
\* schoolbook long division from the top limb down
RECURSIVE BDivLimbs(_, _, _)
BDivLimbs(n, d, x) ==
  Let1(LAMBDA i :
    IF i > Len(n) THEN <<(<<>>), (<<>>)>>
    ELSE Let1(LAMBDA p :
           Let1(LAMBDA r :
             Let1(LAMBDA g :
                    <<BTrim(<<g>> \o p[1]), BSub(r, BMulSmall(d, g))>>,
                  BDigit(r, d)),
             BTrim(<<n[i]>> \o p[2])),
           BDivLimbs(n, d, i + 1)),
    x)

\* <<floor(n / d), whether d divides n>> for d # 0: n and d are scaled by
\* the same power of two so that d is normalised
BDivMod(x, y) ==
  Let2(LAMBDA n, d :
    Let1(LAMBDA sh :
      Let2(LAMBDA ns, ds :
             Let1(LAMBDA qr : <<qr[1], qr[2] = <<>>>>, BDivLimbs(ns, ds, 1)),
           BShl(n, sh), BShl(d, sh)),
      (LimbBits - BitLenSmall(d[Len(d)])) % LimbBits),
    x, y)

\* ------------------------------------------------------------------------
\* IEEE-754 binary64.  A value is [k, s, m, e]: k is "fin", "inf" or "nan",
\* s the sign bit, and a finite value is (-1)^s * m * 2^e with m odd
\* (or m = <<>>, e = 0 for zero), so equal values have equal records.
\* ------------------------------------------------------------------------
MantBits == 53
MaxExp == 1024

F64Zero == [k |-> "fin", s |-> 0, m |-> <<>>, e |-> 0]
F64Nan == [k |-> "nan", s |-> 0, m |-> <<>>, e |-> 0]
F64Inf(s) == [k |-> "inf", s |-> s, m |-> <<>>, e |-> 0]

F64IsZero(a) == a.k = "fin" /\ a.m = <<>>

Min(x, y) == IF x <= y THEN x ELSE y

\* the finite value n * 2^e with n # 0 of at most 53 bits, in canonical form
F64Canon(s, n, e) ==
  Let1(LAMBDA v :
         IF BBitLen(v) + e > MaxExp THEN F64Inf(s)
         ELSE Let1(LAMBDA tz : [k |-> "fin", s |-> s, m |-> BShr(v, tz),
                                e |-> e + tz],
                   BTz(v)),
       n)

\* round-to-nearest, ties-to-even of the exact value (-1)^s * n * 2^e
F64Round(s, n, e) ==
  Let2(LAMBDA v, x :
         IF v = <<>> THEN F64Zero
         ELSE IF BBitLen(v) <= MantBits THEN F64Canon(s, v, x)
         ELSE Let1(LAMBDA sh :
                Let1(LAMBDA q :
                       Let1(LAMBDA c :
                              F64Canon(s,
                                       IF c > 0 \/ (c = 0 /\ BOdd(q))
                                       THEN BAdd(q, <<1>>) ELSE q,
                                       x + sh),
                            BCmp(BSub(v, BShl(q, sh)), BShl(<<1>>, sh - 1))),
                     BShr(v, sh)),
                BBitLen(v) - MantBits),
       n, e)

F64Neg(a) == Let1(LAMBDA v : [v EXCEPT !.s = 1 - v.s], a)

\* -1, 0, 1 as |a| < |b|, |a| = |b|, |a| > |b| for finite a, b
F64CmpMag(a, b) ==
  IF a.m = <<>> \/ b.m = <<>> THEN BCmp(a.m, b.m)
  ELSE Let1(LAMBDA lo : BCmp(BShl(a.m, a.e - lo), BShl(b.m, b.e - lo)),
            Min(a.e, b.e))

\* -1, 0, 1 as a < b, a = b, a > b for finite a, b
F64Cmp(a, b) ==
  IF F64IsZero(a) /\ F64IsZero(b) THEN 0
  ELSE IF F64IsZero(a) THEN (IF b.s = 1 THEN 1 ELSE -1)
  ELSE IF F64IsZero(b) THEN (IF a.s = 1 THEN -1 ELSE 1)
  ELSE IF a.s # b.s THEN (IF a.s = 1 THEN -1 ELSE 1)
  ELSE IF a.s = 0 THEN F64CmpMag(a, b) ELSE F64CmpMag(b, a)

\* a >= b; false when either side is NaN
F64Ge(x, y) ==
  Let2(LAMBDA a, b :
         IF a.k = "nan" \/ b.k = "nan" THEN FALSE
         ELSE IF a.k = "inf" THEN a.s = 0 \/ (b.k = "inf" /\ b.s = 1)
         ELSE IF b.k = "inf" THEN b.s = 1
         ELSE F64Cmp(a, b) >= 0,
       x, y)

\* a < b; false when either side is NaN
F64Lt(x, y) ==
  Let2(LAMBDA a, b :
         IF a.k = "nan" \/ b.k = "nan" THEN FALSE ELSE ~F64Ge(a, b),
       x, y)

F64Add(x, y) ==
  Let2(LAMBDA a, b :
         IF a.k = "nan" \/ b.k = "nan" THEN F64Nan
         ELSE IF a.k = "inf" /\ b.k = "inf"
              THEN (IF a.s = b.s THEN a ELSE F64Nan)
         ELSE IF a.k = "inf" THEN a
         ELSE IF b.k = "inf" THEN b
         ELSE IF a.m = <<>> THEN (IF b.m = <<>> THEN F64Zero ELSE b)
         ELSE IF b.m = <<>> THEN a
         ELSE Let1(LAMBDA lo :
                Let2(LAMBDA u, w :
                       IF a.s = b.s THEN F64Round(a.s, BAdd(u, w), lo)
                       ELSE IF BCmp(u, w) >= 0
                            THEN F64Round(a.s, BSub(u, w), lo)
                       ELSE F64Round(b.s, BSub(w, u), lo),
                     BShl(a.m, a.e - lo), BShl(b.m, b.e - lo)),
                Min(a.e, b.e)),
       x, y)

F64Sub(x, y) == F64Add(x, F64Neg(y))

F64Mul(x, y) ==
  Let2(LAMBDA a, b :
         IF a.k = "nan" \/ b.k = "nan" THEN F64Nan
         ELSE IF a.k = "inf" \/ b.k = "inf"
              THEN (IF F64IsZero(a) \/ F64IsZero(b) THEN F64Nan
                    ELSE F64Inf((a.s + b.s) % 2))
         ELSE IF a.m = <<>> \/ b.m = <<>>
              THEN [F64Zero EXCEPT !.s = (a.s + b.s) % 2]
         ELSE F64Round((a.s + b.s) % 2, BMul(a.m, b.m), a.e + b.e),
       x, y)

\* The dividend is scaled so that the integer quotient has at least 55
\* bits; the remainder is folded into a sticky bit below it.
F64Div(x, y) ==
  Let2(LAMBDA a, b :
         IF a.k = "nan" \/ b.k = "nan" THEN F64Nan
         ELSE IF a.k = "inf"
              THEN (IF b.k = "inf" THEN F64Nan ELSE F64Inf((a.s + b.s) % 2))
         ELSE IF b.k = "inf" THEN [F64Zero EXCEPT !.s = (a.s + b.s) % 2]
         ELSE IF b.m = <<>>
              THEN (IF a.m = <<>> THEN F64Nan ELSE F64Inf((a.s + b.s) % 2))
         ELSE IF a.m = <<>> THEN [F64Zero EXCEPT !.s = (a.s + b.s) % 2]
         ELSE Let1(LAMBDA sh :
                Let1(LAMBDA qr :
                       F64Round((a.s + b.s) % 2,
                                BAddC(BMulSmall(qr[1], 2), <<>>,
                                      IF qr[2] THEN 0 ELSE 1),
                                a.e - b.e - sh - 1),
                     BDivMod(BShl(a.m, sh), b.m)),
                MantBits + 2 + BBitLen(b.m)),
       x, y)

\* variant: the argument passes through a 12-bit integer on its way to f64
F64FromU64Narrow(n) == F64Round(0, BFromNat(n % 4096), 0)

\* `n as f64` for an unsigned integer n
F64FromU64(n) == F64Round(0, BFromNat(n), 0)

\* f64::from(n) for an i32 n
F64FromI32(n) ==
  IF n < 0 THEN F64Round(1, BFromNat(-n), 0) ELSE F64Round(0, BFromNat(n), 0)

\* u8::MAX
U8Max == 255

\* variant: the cast rounds to the nearest integer instead of truncating
F64AsU8Round(x) ==
  Let1(LAMBDA a :
         IF a.k = "nan" THEN 0
         ELSE IF a.k = "inf" THEN (IF a.s = 1 THEN 0 ELSE U8Max)
         ELSE IF a.m = <<>> \/ a.s = 1 THEN 0
         ELSE Let1(LAMBDA h :
                Let1(LAMBDA t : IF BBitLen(t) > 8 THEN U8Max ELSE BToNat(t),
                     IF h.e >= 0 THEN BShl(h.m, h.e) ELSE BShr(h.m, -h.e)),
                F64Add(a, [k |-> "fin", s |-> 0, m |-> <<1>>, e |-> -1])),
       x)

\* `a as u8`: truncation toward zero, saturating at 0 and 255, NaN to 0
F64AsU8(x) ==
  Let1(LAMBDA a :
         IF a.k = "nan" THEN 0
         ELSE IF a.k = "inf" THEN (IF a.s = 1 THEN 0 ELSE U8Max)
         ELSE IF a.m = <<>> \/ a.s = 1 THEN 0
         ELSE IF a.e >= 0
              THEN (IF BBitLen(a.m) + a.e > 8 THEN U8Max
                    ELSE BToNat(BShl(a.m, a.e)))
         ELSE Let1(LAMBDA t : IF BBitLen(t) > 8 THEN U8Max ELSE BToNat(t),
                   BShr(a.m, -a.e)),
       x)

\* the literals of the source
F64_5 == F64FromU64(5)
F64_6 == F64FromU64(6)
F64_2 == F64FromU64(2)
F64_27 == F64FromU64(27)
F64_91 == F64FromU64(91)
F64_100 == F64FromU64(100)

\* the constant subexpression 5.0 / 6.0
FiveSixths == F64Div(F64_5, F64_6)

\* variant: the linear term of the polynomial is subtracted
xp_to_level_neg(level) ==
  Let1(LAMBDA l :
         F64Mul(F64Mul(FiveSixths, l),
                F64Add(F64Sub(F64Mul(F64Mul(F64_2, l), l), F64Mul(F64_27, l)),
                       F64_91)),
       level)

\* (5.0 / 6.0) * level * (2.0 * level * level + 27.0 * level + 91.0)
xp_to_level(level) ==
  Let1(LAMBDA l :
         F64Mul(F64Mul(FiveSixths, l),
                F64Add(F64Add(F64Mul(F64Mul(F64_2, l), l), F64Mul(F64_27, l)),
                       F64_91)),
       level)

\* ------------------------------------------------------------------------
\* LevelInfo
\* ------------------------------------------------------------------------
\* `n as u64` for an i32 n.  u64 values are held in 31-bit naturals: a
\* negative n wraps to the top of the range (2^64 + n in the program,
\* 2^31 + n here).
I32AsU64(n) == IF n >= 0 THEN n ELSE (Base * Base - 1) * 2 + 1 + (n + 1)

\* (((xp as f64 - last) / (next - last)) * 100.0) as u8
Percentage(xp, last_level_xp_requirement, next_level_xp_requirement) ==
  Let2(LAMBDA last, next :
         F64AsU8(F64Mul(F64Div(F64Sub(F64FromU64(xp), last),
                               F64Sub(next, last)),
                        F64_100)),
       last_level_xp_requirement, next_level_xp_requirement)

\* variant: the xp field is initialised from the level
LevelInfoSwapped(xp, level) ==
  [xp |-> I32AsU64(level),
   level |-> I32AsU64(level),
   percentage |-> Percentage(xp, xp_to_level(F64FromI32(level)),
                             xp_to_level(F64FromI32(level + 1)))]

\* The struct built at the end of LevelInfo::new from the input xp and the
\* level the search block evaluated to.
LevelInfo(xp, level) ==
  [xp |-> xp,
   level |-> I32AsU64(level),
   percentage |-> Percentage(xp, xp_to_level(F64FromI32(level)),
                             xp_to_level(F64FromI32(level + 1)))]

\* #[derive(PartialOrd, Ord)]: lexicographic comparison in field order;
\* -1, 0, 1 for Less, Equal, Greater
CmpInt(x, y) == IF x < y THEN -1 ELSE IF x > y THEN 1 ELSE 0

\* variant: the fields are compared in the order percentage, xp, level
LevelInfoCmpPct(a, b) ==
  IF a.percentage # b.percentage THEN CmpInt(a.percentage, b.percentage)
  ELSE IF a.xp # b.xp THEN CmpInt(a.xp, b.xp)
  ELSE CmpInt(a.level, b.level)

LevelInfoCmp(a, b) ==
  IF a.xp # b.xp THEN CmpInt(a.xp, b.xp)
  ELSE IF a.level # b.level THEN CmpInt(a.level, b.level)
  ELSE CmpInt(a.percentage, b.percentage)

\* #[derive(PartialEq, Eq)]: field-wise equality
LevelInfoEq(a, b) ==
  a.xp = b.xp /\ a.level = b.level /\ a.percentage = b.percentage

\* ------------------------------------------------------------------------
\* State: one call of LevelInfo::new at a time.
\*   args    the arguments of the calls started so far, oldest first
\*   pc      "search" inside the while loop, "done" after the call returned
\*   level   the loop's `level`
\*   testxp  the loop's `testxp`
\*   iters   number of executions of the loop body in this call
\*   made    the LevelInfo values returned so far, oldest first
\* ------------------------------------------------------------------------
VARIABLES args, pc, level, testxp, iters, made

vars == <<args, pc, level, testxp, iters, made>>

\* The xp of the regression test, and the xp values around 5775, the
\* smallest level threshold that xp_to_level does not compute exactly.
AnchorXp == {3255, 5774, 5775, 5776}

XpInputs == (0..MaxXp) \cup AnchorXp
PairInputs == {k * PairStride : k \in 0..PairCount}

\* the parameter `xp: u64` of the call in progress
xp == args[Len(args)]

\* the value returned by the call that has just finished
info == made[Len(made)]

\* entry of new(x): let mut testxp = 0.0; let mut level = 0
Enter(x) ==
  /\ args' = Append(args, x)
  /\ pc' = "search"
  /\ level' = 0
  /\ testxp' = F64Zero
  /\ iters' = 0

Init ==
  /\ args \in {<<x>> : x \in XpInputs}
  /\ pc = "search"
  /\ level = 0
  /\ testxp = F64Zero
  /\ iters = 0
  /\ made = <<>>

InitPair ==
  /\ args \in {<<x>> : x \in PairInputs}
  /\ pc = "search"
  /\ level = 0
  /\ testxp = F64Zero
  /\ iters = 0
  /\ made = <<>>

\* variant: while xp > testxp
LoopCondStrict == ~F64Ge(testxp, F64FromU64(xp))

\* let xp = xp as f64; ... while xp >= testxp
LoopCond == F64Ge(F64FromU64(xp), testxp)

\* loop body: level += 1; testxp = Self::xp_to_level(f64::from(level))
LoopBody ==
  /\ pc = "search"
  /\ LoopCond
  /\ level' = level + 1
  /\ testxp' = xp_to_level(F64FromI32(level + 1))
  /\ iters' = iters + 1
  /\ UNCHANGED <<args, pc, made>>

\* variant: the block evaluates to level
ReturnOffByOne ==
  /\ pc = "search"
  /\ ~LoopCond
  /\ made' = Append(made, LevelInfo(xp, level))
  /\ pc' = "done"
  /\ UNCHANGED <<args, level, testxp, iters>>

\* loop exit: the block evaluates to level - 1 and the struct is built
Return ==
  /\ pc = "search"
  /\ ~LoopCond
  /\ made' = Append(made, LevelInfo(xp, level - 1))
  /\ pc' = "done"
  /\ UNCHANGED <<args, level, testxp, iters>>

\* a second, independent call of new
NewAgain ==
  /\ pc = "done"
  /\ Len(made) = 1
  /\ \E x \in PairInputs : Enter(x)
  /\ UNCHANGED made

Next == LoopBody \/ Return

NextPair == LoopBody \/ Return \/ NewAgain

Spec == Init /\ [][Next]_vars

\* new is straight-line sequential code: a step that is enabled is taken
FairSpec == Init /\ [][Next]_vars /\ WF_vars(Next)

SpecPair == InitPair /\ [][NextPair]_vars

\* ------------------------------------------------------------------------
\* Properties
\* ------------------------------------------------------------------------
\* The threshold of the specification at an integer level n, as an exact
\* integer: n * (2n^2 + 27n + 91) is divisible by 6 for every integer n.
Threshold(n) == (5 * n * (2 * n * n + 27 * n + 91)) \div 6

\* C1: the level L returned for x satisfies Threshold(L) <= x < Threshold(L+1)
\* with the threshold recomputed exactly.
ThresholdConsistency ==
  pc = "done" =>
    /\ Threshold(info.level) <= xp
    /\ Threshold(info.level + 1) > xp

\* C2: the percentage returned is in 0..99; 100 is never produced.
PercentageBelow100 ==
  pc = "done" => info.percentage \in 0..99

PercentageBelow100Witness ==
  pc = "done" /\ info.percentage = 99 /\ info.level >= 2

\* C3: the percentage returned equals the exact progress ratio times 100,
\* truncated toward zero.
PercentageIsExactFloor ==
  pc = "done" =>
    info.percentage =
      (100 * (xp - Threshold(info.level)))
        \div (Threshold(info.level + 1) - Threshold(info.level))

\* C4: of two constructions, the one from the smaller xp has the smaller or
\* equal level.
LevelMonotone ==
  (pc = "done" /\ Len(made) = 2) =>
    /\ args[1] <= args[2] => made[1].level <= made[2].level
    /\ args[2] <= args[1] => made[2].level <= made[1].level

LevelMonotoneWitness ==
  /\ pc = "done"
  /\ Len(made) = 2
  /\ args[1] < args[2]
  /\ made[1].level < made[2].level
  /\ made[1].level >= 1

\* C5: an xp exactly on Threshold(k) yields level k with percentage 0.
ThresholdStartsLevel ==
  pc = "done" =>
    \A k \in 0..level :
      xp = Threshold(k) => info.level = k /\ info.percentage = 0

\* C6: new(3255) has level 8, percentage 43 and xp 3255.
Regression3255 ==
  (pc = "done" /\ xp = 3255) =>
    info.level = 8 /\ info.percentage = 43 /\ info.xp = 3255

Regression3255Witness ==
  pc = "done" /\ xp = 3255 /\ info.level = 8 /\ info.percentage = 43

\* C7: the xp field of the value returned equals the argument of the call.
XpPreserved ==
  /\ pc = "done" => info.xp = xp
  /\ \A i \in 1..Len(made) : made[i].xp = args[i]

XpPreservedWitness ==
  pc = "done" /\ info.xp = xp /\ xp > info.level /\ info.level >= 1

\* C8: two constructions from the same xp are equal, and the derived
\* equality and ordering of two constructions agree with the equality and
\* ordering of their arguments.
ComparisonFollowsXp ==
  (pc = "done" /\ Len(made) = 2) =>
    /\ args[1] = args[2] => made[1] = made[2]
    /\ LevelInfoEq(made[1], made[2]) <=> args[1] = args[2]
    /\ LevelInfoCmp(made[1], made[2]) = CmpInt(args[1], args[2])

ComparisonFollowsXpWitness ==
  /\ pc = "done"
  /\ Len(made) = 2
  /\ args[1] < args[2]
  /\ made[1].percentage > made[2].percentage
  /\ LevelInfoCmp(made[1], made[2]) = -1

\* C9: the search terminates; it runs the loop body exactly L + 1 times for
\* the returned level L, every level it passes over has a test threshold
\* not above xp, the level it stops at is the first whose test threshold
\* exceeds xp, and one less is returned; for xp = 0 it runs once and
\* returns level 0.
SearchTerminates ==
  /\ <>(pc = "done")
  /\ [][pc' = "search" => F64Ge(F64FromU64(xp), testxp)]_vars
  /\ [](pc = "done" =>
          /\ iters - 1 = info.level
          /\ level - 1 = info.level
          /\ testxp = xp_to_level(F64FromI32(level))
          /\ F64Lt(F64FromU64(xp), testxp)
          /\ xp = 0 => (iters = 1 /\ info.level = 0))

SearchTerminatesWitness ==
  pc = "done" /\ iters = 12 /\ info.level = 11

\* C10: at every integer level n >= 0 the loop reaches, xp_to_level(n) is a
\* finite non-negative number, xp_to_level(0) = 0, xp_to_level(1) > 0 and
\* xp_to_level(n) < xp_to_level(n + 1).
ThresholdIncreasing ==
  \A t0 \in {xp_to_level(F64FromI32(level))} :
    \A t1 \in {xp_to_level(F64FromI32(level + 1))} :
      /\ t0.k = "fin" /\ t1.k = "fin"
      /\ t0.s = 0 \/ F64IsZero(t0)
      /\ level = 0 => F64IsZero(t0)
      /\ level >= 1 => ~F64IsZero(t0)
      /\ F64Lt(t0, t1)

ThresholdIncreasingWitness ==
  pc = "search" /\ level = 11 /\ testxp = xp_to_level(F64FromI32(level))

====
